---- MODULE Spec2Model ----
(***************************************************************************)
(* Model of src/lib/actions/thread.actions.ts: the thread store (Thread,   *)
(* User and Community collections) and the server actions fetchPosts,      *)
(* createThread, fetchThreadById, addCommentToThread, fetchAllChildThreads *)
(* and deleteThread.  Every action of the model is one resumption of an    *)
(* async function: the store call that is awaited, together with the       *)
(* synchronous code that follows it up to the next await.                  *)
(***************************************************************************)
EXTENDS Integers, Sequences, FiniteSets, TLC

VARIABLES threads, users, communities, nextId, proc

vars == <<threads, users, communities, nextId, proc>>

(* ------------------------------ bounds --------------------------------- *)

\* Number of Thread documents that can ever be created (ids 1..MaxThreads).
MaxThreads == 3

\* Number of Thread documents of the stores drawn for the traversal alone.
NumNodes == 4

\* Number of Thread documents of the stores that may hold a parentId cycle.
NumCycleNodes == 3

\* Cap on the length of a traversal's result (a cyclic store never ends it).
MaxVisit == NumNodes + 1

\* Number of Thread documents of the stores in which owners may be missing.
NumOwned == 3

\* Number of Thread documents of the stores drawn for fetchPosts.
NumPosts == 5

\* Largest pageNumber and largest pageSize fetchPosts is called with.
MaxPage == 3

MaxPageSize == 2

(* ------------------------------ values --------------------------------- *)

\* null / undefined of a thread reference (parentId, a result, a new id).
Null == 0

\* community: null of a thread created for a personal account.
NoCommunity == "none"

\* author: null, what populate leaves of a reference to a User that is gone.
NoAuthor == "nobody"

Procs == {"p1", "p2"}

Users == {"u1", "u2"}

Communities == {"c1"}

\* The communityId a caller passes in: the code of a community, a code that
\* matches none, or null.
CommunityCodes == Communities \cup {"unknown", NoCommunity}

\* The text a caller passes in: empty or not.
Texts == {"", "t"}

ThreadIds == 1..MaxThreads

Range(s) == {s[i] : i \in 1..Len(s)}

\* All orders in which a query without a sort may return the documents S.
Orders(S) == {s \in [1..Cardinality(S) -> S] : \A i, j \in 1..Cardinality(S) : s[i] = s[j] => i = j}

(* --------------------------- store primitives --------------------------- *)

\* Thread.findById(id): the document or null.
Exists(store, id) == id \in DOMAIN store

\* new Thread(...) that leaves parentId out.
NewThread_withoutParentId(author, community, parentId) ==
    [author |-> author, community |-> community, parentId |-> Null, children |-> <<>>]

\* new Thread({text, author, community, parentId}): children starts empty.
NewThread(author, community, parentId) ==
    [author |-> author, community |-> community, parentId |-> parentId, children |-> <<>>]

\* Insert a document under a fresh _id.
Insert(store, id, doc) == [t \in DOMAIN store \cup {id} |-> IF t = id THEN doc ELSE store[t]]

\* What a caller holds of a document it has read: _id, author, community.
Snapshot(store, t) == [id |-> t, author |-> store[t].author, community |-> store[t].community]

\* The children array of the thread read in place of the parentId query.
FindByParent_childrenArray(store, threadId) ==
    IF threadId \in DOMAIN store THEN Range(store[threadId].children) \cap DOMAIN store ELSE {}

\* Of the threads with that parentId, only those the parent lists among its
\* children.
FindByParent_listedOnly(store, threadId) ==
    {t \in DOMAIN store : /\ store[t].parentId = threadId
                          /\ threadId \in DOMAIN store => t \in Range(store[threadId].children)}

\* Thread.find({ parentId: threadId }): the ids of the matching documents.
FindByParent(store, threadId) == {t \in DOMAIN store : store[t].parentId = threadId}

\* The list is cut at the first of the ids: the entries behind it are lost.
Pull_cutAtFirst(list, ids) ==
    IF \E i \in 1..Len(list) : list[i] \in ids
    THEN SubSeq(list, 1, (CHOOSE i \in 1..Len(list) :
                            list[i] \in ids /\ \A j \in 1..(i - 1) : list[j] \notin ids) - 1)
    ELSE list

\* { $pull: { threads: { $in: ids } } } on one list.
Pull(list, ids) == SelectSeq(list, LAMBDA x : x \notin ids)

(* ------------------------------ processes ------------------------------ *)

IdleProc ==
    [pc |-> "idle", op |-> "none", id |-> Null, author |-> "u1",
     text |-> "t", communityId |-> NoCommunity,
     communityIdObject |-> NoCommunity, mainThread |-> Null,
     todo |-> <<>>, descendantThreads |-> <<>>, created |-> Null,
     outcome |-> "none", ret |-> Null, retChildren |-> <<>>, revalidated |-> FALSE,
     pageNumber |-> 1, pageSize |-> 1, skipAmount |-> 0, totalPostsCount |-> 0,
     posts |-> <<>>, isNext |-> FALSE, calls |-> <<>>,
     startSub |-> {}, racedRoot |-> Null, wasDeleted |-> FALSE,
     onlyDeletes |-> FALSE]

Quiescent(p) == proc[p].pc \in {"idle", "done"}

\* The call pr has issued one more call to the store: calls holds, in order,
\* the store calls and the revalidatePath a server action call has made.
Called(pr, call) == [pr EXCEPT !.calls = Append(@, call)]

\* A call returns or throws: its locals are gone; what stays is what the
\* caller observes (the outcome, the result, the cache invalidation) and the
\* record of the call (its arguments, the ids it read and created).
Return(pr, outcome, revalidated) ==
    [IdleProc EXCEPT !.pc = "done", !.op = pr.op, !.id = pr.id, !.created = pr.created,
                     !.calls = IF revalidated THEN Append(pr.calls, "revalidatePath") ELSE pr.calls,
                     !.communityId = pr.communityId,
                     !.descendantThreads = pr.descendantThreads,
                     !.outcome = outcome, !.revalidated = revalidated,
                     !.startSub = pr.startSub, !.racedRoot = pr.racedRoot,
                     !.wasDeleted = pr.wasDeleted, !.onlyDeletes = pr.onlyDeletes]

Init ==
    /\ threads = <<>>
    /\ users = [u \in Users |-> <<>>]
    /\ communities = [c \in Communities |-> <<>>]
    /\ nextId = 1
    /\ proc = [p \in Procs |-> IdleProc]


(* ------------------------- subtree (specification) ---------------------- *)

\* x's parentId chain reaches t within fuel links through existing threads.
RECURSIVE ChainReaches(_, _, _, _)
ChainReaches(store, x, t, fuel) ==
    IF fuel = 0 \/ x \notin DOMAIN store THEN FALSE
    ELSE IF store[x].parentId = t THEN TRUE
    ELSE ChainReaches(store, store[x].parentId, t, fuel - 1)

\* The transitive descendants of t: the threads whose ancestor chain reaches t.
Descendants(store, t) ==
    {x \in DOMAIN store : ChainReaches(store, x, t, Cardinality(DOMAIN store))}

\* No thread is its own ancestor.
Acyclic(store) == \A x \in DOMAIN store : x \notin Descendants(store, x)

\* deleteThread has returned to p's caller without an error.
DeleteOk(p) == proc[p].op = "deleteThread" /\ proc[p].pc = "done" /\ proc[p].outcome = "ok"

\* id was the root or a descendant of the root of a deleteThread call of
\* another process that has returned without an error.
WasDeleted(p, id) == \E q \in Procs \ {p} : DeleteOk(q) /\ id \in proc[q].startSub

\* No call is under way in another process, except a deleteThread during
\* which no call of another kind has been under way.
OnlyDeletes(p) ==
    \A q \in Procs \ {p} : Quiescent(q) \/ (proc[q].op = "deleteThread" /\ proc[q].onlyDeletes)

\* Process p starts a call that is no deleteThread and continues as rec: a
\* deleteThread under way in another process is no longer among deletes only.
StartOther(p, rec) ==
    [q \in Procs |->
        IF q = p THEN rec
        ELSE IF proc[q].op = "deleteThread" /\ ~Quiescent(q)
             THEN [proc[q] EXCEPT !.onlyDeletes = FALSE]
             ELSE proc[q]]

(* ------------------------------- fetchPosts ----------------------------- *)

\* The pageNumber and pageSize arguments; pageNumber may be zero or negative.
PageNumbers == -1..MaxPage

PageSizes == 1..MaxPageSize

\* { parentId: { $in: [null, undefined] } }: the threads that have no parent.
TopLevelThreads(store) == {t \in DOMAIN store : store[t].parentId = Null}

\* .sort({ createdAt: "desc" }): the orders of the documents S with createdAt
\* descending; documents with the same createdAt come in any order.
RECURSIVE SortedDesc(_, _)
SortedDesc(store, S) ==
    IF S = {} THEN {<<>>}
    ELSE UNION {{<<x>> \o s : s \in SortedDesc(store, S \ {x})} :
                  x \in {y \in S : \A z \in S : store[y].createdAt >= store[z].createdAt}}

\* The page is taken from the front whatever skipAmount is.
SkipLimit_noSkip(sorted, skipAmount, pageSize) ==
    SubSeq(sorted, 1, IF pageSize < Len(sorted) THEN pageSize ELSE Len(sorted))

\* .skip(skipAmount).limit(pageSize) on the sorted documents.
SkipLimit(sorted, skipAmount, pageSize) ==
    SubSeq(sorted, skipAmount + 1,
           IF skipAmount + pageSize < Len(sorted) THEN skipAmount + pageSize ELSE Len(sorted))

\* fetchPosts is called: skipAmount is computed and the query is built;
\* Thread.countDocuments is awaited.
FetchPostsCount(p, pageNumber, pageSize) ==
    /\ Quiescent(p)
    /\ proc' = [proc EXCEPT ![p] =
                 [IdleProc EXCEPT !.pc = "fp_exec", !.op = "fetchPosts",
                    !.calls = <<"Thread.countDocuments">>,
                    !.pageNumber = pageNumber, !.pageSize = pageSize,
                    !.skipAmount = (pageNumber - 1) * pageSize,
                    !.totalPostsCount = Cardinality(TopLevelThreads(threads))]]
    /\ UNCHANGED <<threads, users, communities, nextId>>

\* postsQuery.exec() is awaited, isNext is computed and both are returned.
\* The store rejects a query whose skip is negative; fetchPosts has no catch,
\* so the rejection is what the caller gets.
FetchPostsExec(p) ==
    /\ proc[p].pc = "fp_exec"
    /\ IF proc[p].skipAmount < 0
       THEN proc' = [proc EXCEPT ![p].pc = "done", ![p].outcome = "StoreError",
                                 ![p].calls = Append(@, "Thread.find")]
       ELSE \E sorted \in SortedDesc(threads, TopLevelThreads(threads)) :
               LET posts == SkipLimit(sorted, proc[p].skipAmount, proc[p].pageSize)
               IN proc' = [proc EXCEPT ![p].pc = "done", ![p].outcome = "ok",
                              ![p].calls = Append(@, "Thread.find"),
                              ![p].posts = posts,
                              ![p].isNext = proc[p].totalPostsCount > proc[p].skipAmount + Len(posts)]
    /\ UNCHANGED <<threads, users, communities, nextId>>

(* ------------------------------ createThread ---------------------------- *)

\* A communityId that is not null resolves to the community there is.
FindCommunity_anyCommunity(code) == IF code = NoCommunity THEN NoCommunity ELSE "c1"

\* Community.findOne({ id: communityId }, { _id: 1 }): the community or null.
FindCommunity(code) == IF code \in Communities THEN code ELSE NoCommunity

\* createThread is called; Community.findOne is awaited.  Nothing looks at
\* text before.
CreateThreadFindCommunity(p, author, code, text) ==
    /\ Quiescent(p)
    /\ nextId <= MaxThreads
    /\ proc' = StartOther(p, [IdleProc EXCEPT !.pc = "ct_create", !.op = "createThread",
                                 !.calls = <<"Community.findOne">>,
                                 !.author = author, !.text = text, !.communityId = code,
                                 !.communityIdObject = FindCommunity(code)])
    /\ UNCHANGED <<threads, users, communities, nextId>>

\* Thread.create({ text, author, community: communityIdObject }).
CreateThreadCreate(p) ==
    /\ proc[p].pc = "ct_create"
    /\ nextId <= MaxThreads
    /\ threads' = Insert(threads, nextId, NewThread(proc[p].author, proc[p].communityIdObject, Null))
    /\ nextId' = nextId + 1
    /\ proc' = [proc EXCEPT ![p].pc = "ct_user", ![p].created = nextId,
                            ![p].calls = Append(@, "Thread.create")]
    /\ UNCHANGED <<users, communities>>

\* Thread.create with an empty text rejects when the Thread schema requires
\* text (the schema decides; with a schema that does not, the document is
\* created as by CreateThreadCreate): the catch rethrows it as "Failed to
\* create thread: ...".
CreateThreadCreateRejects(p) ==
    /\ proc[p].pc = "ct_create"
    /\ proc[p].text = ""
    /\ proc' = [proc EXCEPT ![p] = Return(Called(proc[p], "Thread.create"), "ValidationError", FALSE)]
    /\ UNCHANGED <<threads, users, communities, nextId>>

\* The id of the new thread is put at the front of the author's list.
CreateThreadUpdateUser_unshift(p) ==
    /\ proc[p].pc = "ct_user"
    /\ users' = [users EXCEPT ![proc[p].author] = <<proc[p].created>> \o @]
    /\ proc' = IF proc[p].communityIdObject = NoCommunity
               THEN [proc EXCEPT ![p] = Return(Called(proc[p], "User.findByIdAndUpdate"), "ok", TRUE)]
               ELSE [proc EXCEPT ![p].pc = "ct_community",
                                 ![p].calls = Append(@, "User.findByIdAndUpdate")]
    /\ UNCHANGED <<threads, communities, nextId>>

\* User.findByIdAndUpdate(author, { $push: { threads: createdThread._id } });
\* without a community, revalidatePath(path) follows and the call returns.
CreateThreadUpdateUser(p) ==
    /\ proc[p].pc = "ct_user"
    /\ users' = [users EXCEPT ![proc[p].author] = Append(@, proc[p].created)]
    /\ proc' = IF proc[p].communityIdObject = NoCommunity
               THEN [proc EXCEPT ![p] = Return(Called(proc[p], "User.findByIdAndUpdate"), "ok", TRUE)]
               ELSE [proc EXCEPT ![p].pc = "ct_community",
                                 ![p].calls = Append(@, "User.findByIdAndUpdate")]
    /\ UNCHANGED <<threads, communities, nextId>>

\* Community.findByIdAndUpdate(communityIdObject, { $push: { threads } }),
\* then revalidatePath(path).
CreateThreadUpdateCommunity(p) ==
    /\ proc[p].pc = "ct_community"
    /\ communities' = [communities EXCEPT ![proc[p].communityIdObject] = Append(@, proc[p].created)]
    /\ proc' = [proc EXCEPT ![p] = Return(Called(proc[p], "Community.findByIdAndUpdate"), "ok", TRUE)]
    /\ UNCHANGED <<threads, users, nextId>>

(* ----------------------------- fetchThreadById -------------------------- *)

\* Thread.findById(id).populate(...).exec(): the thread, or null when no
\* document has that id; the function returns what the query returned.
fetchThreadById(store, id) == IF Exists(store, id) THEN id ELSE Null

\* The outcome of fetchThreadById: only a rejected query throws.
fetchThreadByIdOutcome(store, id) == "ok"

\* .populate({ path: "children", ... }): the documents of the ids in children,
\* in the order of the array; an id without a document is left out.
PopulateChildren(store, id) ==
    IF Exists(store, id) THEN SelectSeq(store[id].children, LAMBDA c : Exists(store, c)) ELSE <<>>

FetchThreadById(p, id) ==
    /\ Quiescent(p)
    /\ proc' = [proc EXCEPT ![p] = [IdleProc EXCEPT !.pc = "done", !.op = "fetchThreadById",
                    !.calls = <<"Thread.findById">>,
                    !.id = id, !.ret = fetchThreadById(threads, id),
                    !.retChildren = PopulateChildren(threads, id),
                    !.outcome = fetchThreadByIdOutcome(threads, id),
                    !.wasDeleted = WasDeleted(p, id)]]
    /\ UNCHANGED <<threads, users, communities, nextId>>


(* --------------------------- fetchAllChildThreads ----------------------- *)

\* deleteThread goes from the traversal straight to the updateMany calls.
AfterExpand_skipDelete(op) == IF op = "deleteThread" THEN "del_users" ELSE "done"

\* Where a call continues once fetchAllChildThreads has returned.
AfterExpand(op) == IF op = "deleteThread" THEN "del_many" ELSE "done"

\* The loop over the children returns after its first child: the children of
\* enclosing calls that are still to be expanded are dropped.
Expanded_firstChildOnly(pr, visited, kids, rest) ==
    [pr EXCEPT !.descendantThreads = visited,
               !.calls = Append(@, "Thread.find"),
               !.todo = kids,
               !.pc = IF kids = <<>> THEN AfterExpand(pr.op) ELSE "expand"]

\* descendantThreads.unshift(childThread, ...) in place of push: the child
\* found last comes first.
Expanded_unshift(pr, visited, kids, rest) ==
    [pr EXCEPT !.calls = Append(@, "Thread.find"),
               !.descendantThreads =
                   IF visited = <<>> THEN <<>>
                   ELSE <<visited[Len(visited)]>> \o SubSeq(visited, 1, Len(visited) - 1),
               !.todo = kids \o rest,
               !.pc = IF kids \o rest = <<>> THEN AfterExpand(pr.op) ELSE "expand"]

\* One Thread.find({ parentId }) of the recursion and the synchronous code
\* around it: kids is the query's result, rest the children of enclosing
\* calls that are still to be expanded.  The recursion is depth first, so
\* the children just found are expanded before rest.
Expanded(pr, visited, kids, rest) ==
    [pr EXCEPT !.descendantThreads = visited,
               !.calls = Append(@, "Thread.find"),
               !.todo = kids \o rest,
               !.pc = IF kids \o rest = <<>> THEN AfterExpand(pr.op) ELSE "expand"]

\* The outermost call: Thread.find({ parentId: threadId }).
FetchChildrenOfRoot(p) ==
    /\ proc[p].pc = "expand0"
    /\ \E ord \in Orders(FindByParent(threads, proc[p].id)) :
          proc' = [proc EXCEPT ![p] =
                     Expanded(proc[p], <<>>, [i \in 1..Len(ord) |-> Snapshot(threads, ord[i])], <<>>)]
    /\ UNCHANGED <<threads, users, communities, nextId>>

\* A recursive call for the next child: Thread.find({ parentId: childThread._id });
\* descendantThreads receives the child ahead of its own descendants.
FetchChildrenOfNext(p) ==
    /\ proc[p].pc = "expand"
    /\ Len(proc[p].descendantThreads) < MaxVisit
    /\ LET childThread == Head(proc[p].todo)
       IN \E ord \in Orders(FindByParent(threads, childThread.id)) :
             proc' = [proc EXCEPT ![p] =
                        Expanded(proc[p], Append(proc[p].descendantThreads, childThread),
                                 [i \in 1..Len(ord) |-> Snapshot(threads, ord[i])],
                                 Tail(proc[p].todo))]
    /\ UNCHANGED <<threads, users, communities, nextId>>

\* fetchAllChildThreads called on its own, on a store that does not change.
ExpandStart(p, id) ==
    /\ Quiescent(p)
    /\ proc' = [proc EXCEPT ![p] = [IdleProc EXCEPT !.pc = "expand0", !.op = "fetchAllChildThreads",
                    !.id = id]]
    /\ UNCHANGED <<threads, users, communities, nextId>>

(* ------------------------------ deleteThread ---------------------------- *)

\* Only the main thread is deleted.
descendantThreadIds_mainOnly(pr) == {pr.id}

\* [id, ...descendantThreads.map((thread) => thread._id)], as a set.
descendantThreadIds(pr) == {pr.id} \cup {pr.descendantThreads[i].id : i \in 1..Len(pr.descendantThreads)}

\* .populate("author community") on what was read of the main thread: a
\* reference to a User or a Community that does not exist becomes null.
PopulateOwners(userLists, communityLists, doc) ==
    [doc EXCEPT !.author = IF @ \in DOMAIN userLists THEN @ ELSE NoAuthor,
                !.community = IF @ \in DOMAIN communityLists THEN @ ELSE NoCommunity]

\* The author of the main thread is left out.
uniqueAuthorIds_descendantsOnly(pr) ==
    {pr.descendantThreads[i].author : i \in 1..Len(pr.descendantThreads)} \ {NoAuthor}

\* The authors of the descendants and of the main thread, undefined left out.
uniqueAuthorIds(pr) ==
    ({pr.descendantThreads[i].author : i \in 1..Len(pr.descendantThreads)}
        \cup {pr.mainThread.author}) \ {NoAuthor}

\* The community of the main thread is left out.
uniqueCommunityIds_descendantsOnly(pr) ==
    {pr.descendantThreads[i].community : i \in 1..Len(pr.descendantThreads)} \ {NoCommunity}

\* The communities of the descendants and of the main thread, undefined left out.
uniqueCommunityIds(pr) ==
    ({pr.descendantThreads[i].community : i \in 1..Len(pr.descendantThreads)}
        \cup {pr.mainThread.community}) \ {NoCommunity}

\* The delete also removes every thread whose parentId is among ids at the
\* time of the delete.
DeleteManyThreads_andTheirReplies(store, ids) ==
    [t \in {x \in DOMAIN store : x \notin ids /\ store[x].parentId \notin ids} |-> store[t]]

\* Thread.deleteMany({ _id: { $in: ids } }).
DeleteManyThreads(store, ids) == [t \in DOMAIN store \ ids |-> store[t]]

\* The update is given up as a whole when one of the owners does not exist.
UpdateManyPull_allOrNothing(lists, owners, ids) ==
    IF owners \subseteq DOMAIN lists
    THEN [o \in DOMAIN lists |-> IF o \in owners THEN Pull(lists[o], ids) ELSE lists[o]]
    ELSE lists

\* updateMany({ _id: { $in: owners } }, { $pull: { threads: { $in: ids } } }).
UpdateManyPull(lists, owners, ids) ==
    [o \in DOMAIN lists |-> IF o \in owners THEN Pull(lists[o], ids) ELSE lists[o]]

\* deleteThread without the check of mainThread: a missing thread is treated
\* as a thread without author and community and the call goes on.
DeleteThreadFind_unchecked(p, id) ==
    /\ Quiescent(p)
    /\ proc' = [proc EXCEPT ![p] =
                 [IdleProc EXCEPT !.pc = "expand0", !.op = "deleteThread", !.id = id,
                          !.calls = <<"Thread.findById">>,
                    !.mainThread = IF Exists(threads, id) THEN Snapshot(threads, id)
                                   ELSE [id |-> id, author |-> "u1", community |-> NoCommunity],
                    !.startSub = IF Exists(threads, id) THEN {id} \cup Descendants(threads, id) ELSE {},
                    !.wasDeleted = WasDeleted(p, id),
                    !.onlyDeletes = OnlyDeletes(p)]]
    /\ UNCHANGED <<threads, users, communities, nextId>>

\* deleteThread is called; Thread.findById(id).populate("author community")
\* is awaited; a missing thread throws "thread not found".
DeleteThreadFind(p, id) ==
    /\ Quiescent(p)
    /\ proc' = [proc EXCEPT ![p] =
                 IF Exists(threads, id)
                 THEN [IdleProc EXCEPT !.pc = "expand0", !.op = "deleteThread", !.id = id,
                          !.calls = <<"Thread.findById">>,
                          !.mainThread = PopulateOwners(users, communities, Snapshot(threads, id)),
                          !.startSub = {id} \cup Descendants(threads, id),
                          !.onlyDeletes = OnlyDeletes(p)]
                 ELSE [IdleProc EXCEPT !.pc = "done", !.op = "deleteThread", !.id = id,
                          !.calls = <<"Thread.findById">>,
                          !.outcome = "NotFound", !.wasDeleted = WasDeleted(p, id),
                          !.onlyDeletes = OnlyDeletes(p)]]
    /\ UNCHANGED <<threads, users, communities, nextId>>

\* Thread.deleteMany({ _id: { $in: descendantThreadIds } }).
DeleteThreadDeleteMany(p) ==
    /\ proc[p].pc = "del_many"
    /\ threads' = DeleteManyThreads(threads, descendantThreadIds(proc[p]))
    /\ proc' = [proc EXCEPT ![p].pc = "del_users", ![p].calls = Append(@, "Thread.deleteMany")]
    /\ UNCHANGED <<users, communities, nextId>>

\* User.updateMany(...).
DeleteThreadUpdateUsers(p) ==
    /\ proc[p].pc = "del_users"
    /\ users' = UpdateManyPull(users, uniqueAuthorIds(proc[p]), descendantThreadIds(proc[p]))
    /\ proc' = [proc EXCEPT ![p].pc = "del_communities", ![p].calls = Append(@, "User.updateMany")]
    /\ UNCHANGED <<threads, communities, nextId>>

\* Community.updateMany(...), then revalidatePath(path).
DeleteThreadUpdateCommunities(p) ==
    /\ proc[p].pc = "del_communities"
    /\ communities' = UpdateManyPull(communities, uniqueCommunityIds(proc[p]), descendantThreadIds(proc[p]))
    /\ proc' = [proc EXCEPT ![p] = Return(Called(proc[p], "Community.updateMany"), "ok", TRUE)]
    /\ UNCHANGED <<threads, users, nextId>>

\* The store call a deleteThread call suspended at pc is waiting for.
AwaitedCall(pc) ==
    CASE pc \in {"expand0", "expand"} -> "Thread.find"
      [] pc = "del_many" -> "Thread.deleteMany"
      [] pc = "del_users" -> "User.updateMany"
      [] pc = "del_communities" -> "Community.updateMany"

\* The store call deleteThread is waiting for rejects (the connection is
\* lost, the call times out): nothing is written, the catch wraps the error
\* as "Failed to delete thread: ..." and the call throws.  The error is
\* built the same way whichever call rejected.
DeleteThreadStoreRejects(p) ==
    /\ proc[p].op = "deleteThread"
    /\ proc[p].pc \in {"expand0", "expand", "del_many", "del_users", "del_communities"}
    /\ proc' = [proc EXCEPT ![p] = Return(Called(proc[p], AwaitedCall(proc[p].pc)), "StoreError", FALSE)]
    /\ UNCHANGED <<threads, users, communities, nextId>>

(* ---------------------------- addCommentToThread ------------------------ *)

\* The root of a deleteThread call of another process that has finished
\* reading its subtree, holds threadId among the ids it deletes and has not
\* returned before this call started; Null if there is none.
RacingDelete(p, threadId) ==
    LET R == {q \in Procs \ {p} : /\ proc[q].op = "deleteThread"
                                  /\ proc[q].pc \in {"del_many", "del_users", "del_communities", "done"}
                                  /\ proc[q].outcome \in {"none", "ok"}
                                  /\ threadId \in descendantThreadIds(proc[q])}
    IN IF R = {} THEN Null ELSE proc[CHOOSE q \in R : TRUE].id

\* originalThread.children.unshift(...) in place of push: the new reply comes
\* first.
SaveOriginalThread_unshift(store, threadId, commentId) ==
    IF Exists(store, threadId)
    THEN [store EXCEPT ![threadId].children = <<commentId>> \o @]
    ELSE store

\* save() writes the children without the ids of the replies stored after
\* the new one: what other calls have appended meanwhile is lost.
SaveOriginalThread_overwrite(store, threadId, commentId) ==
    IF Exists(store, threadId)
    THEN [store EXCEPT ![threadId].children =
              Append(SelectSeq(@, LAMBDA c : c < commentId), commentId)]
    ELSE store

\* originalThread.children.push(savedCommentThread._id); originalThread.save():
\* the $push reaches the stored parent; a parent deleted meanwhile is not
\* written back and save() rejects.
SaveOriginalThread(store, threadId, commentId) ==
    IF Exists(store, threadId)
    THEN [store EXCEPT ![threadId].children = Append(@, commentId)]
    ELSE store

\* addCommentToThread without the check of originalThread: the call goes on
\* to store the reply.
AddCommentFind_unchecked(p, threadId, userId) ==
    /\ Quiescent(p)
    /\ proc' = StartOther(p, [IdleProc EXCEPT !.pc = "ac_comment", !.op = "addCommentToThread",
                                 !.calls = <<"Thread.findById">>,
                                 !.id = threadId, !.author = userId])
    /\ UNCHANGED <<threads, users, communities, nextId>>

\* addCommentToThread is called; Thread.findById(threadId) is awaited; a
\* missing thread throws "Thread not found".
AddCommentFind(p, threadId, userId) ==
    /\ Quiescent(p)
    /\ proc' = StartOther(p,
                 IF Exists(threads, threadId)
                 THEN [IdleProc EXCEPT !.pc = "ac_comment", !.op = "addCommentToThread",
                          !.calls = <<"Thread.findById">>,
                          !.id = threadId, !.author = userId]
                 ELSE [IdleProc EXCEPT !.pc = "done", !.op = "addCommentToThread",
                          !.calls = <<"Thread.findById">>,
                          !.id = threadId, !.outcome = "NotFound"])
    /\ UNCHANGED <<threads, users, communities, nextId>>

\* commentThread.save(): the reply is stored with parentId: threadId.
AddCommentSaveComment(p) ==
    /\ proc[p].pc = "ac_comment"
    /\ nextId <= MaxThreads
    /\ threads' = Insert(threads, nextId, NewThread(proc[p].author, NoCommunity, proc[p].id))
    /\ nextId' = nextId + 1
    /\ proc' = [proc EXCEPT ![p].pc = "ac_parent", ![p].created = nextId,
                            ![p].calls = Append(@, "commentThread.save"),
                            ![p].racedRoot = RacingDelete(p, proc[p].id)]
    /\ UNCHANGED <<users, communities>>

\* originalThread.save() rejects after the reply has been stored, and the
\* reply is deleted again.
AddCommentSaveParentRejects_rollback(p) ==
    /\ proc[p].pc = "ac_parent"
    /\ threads' = DeleteManyThreads(threads, {proc[p].created})
    /\ proc' = [proc EXCEPT ![p] = Return(Called(proc[p], "originalThread.save"), "StoreError", FALSE)]
    /\ UNCHANGED <<users, communities, nextId>>

\* originalThread.save() rejects (the connection is lost, the call times
\* out): the parent is not written, the catch wraps the error as "Error
\* adding comment to thread: ..." and the call throws.  Nothing undoes the
\* commentThread.save() that went before.
AddCommentSaveParentRejects(p) ==
    /\ proc[p].pc = "ac_parent"
    /\ proc' = [proc EXCEPT ![p] = Return(Called(proc[p], "originalThread.save"), "StoreError", FALSE)]
    /\ UNCHANGED <<threads, users, communities, nextId>>

\* originalThread.save(), then revalidatePath(path).
AddCommentSaveParent(p) ==
    /\ proc[p].pc = "ac_parent"
    /\ threads' = SaveOriginalThread(threads, proc[p].id, proc[p].created)
    /\ proc' = IF Exists(threads, proc[p].id)
               THEN [proc EXCEPT ![p] = Return(Called(proc[p], "originalThread.save"), "ok", TRUE)]
               ELSE [proc EXCEPT ![p] = Return(Called(proc[p], "originalThread.save"), "StoreError", FALSE)]
    /\ UNCHANGED <<users, communities, nextId>>

(* ---------------------------- specifications ---------------------------- *)

\* The users on whose behalf calls that overlap in time are made.
ConcurrentAuthors == {"u1"}

\* The communityId of the createThread calls that overlap in time with other
\* calls: the code of a community or null.
ConcurrentCodes == Communities \cup {NoCommunity}

\* A call of process p resumes after an await.
Resume(p) ==
    \/ CreateThreadCreate(p)
    \/ CreateThreadCreateRejects(p)
    \/ CreateThreadUpdateUser(p)
    \/ CreateThreadUpdateCommunity(p)
    \/ AddCommentSaveComment(p)
    \/ AddCommentSaveParent(p)
    \/ FetchChildrenOfRoot(p)
    \/ FetchChildrenOfNext(p)
    \/ DeleteThreadDeleteMany(p)
    \/ DeleteThreadUpdateUsers(p)
    \/ DeleteThreadUpdateCommunities(p)

\* Calls of the two processes interleave at every await.  fetchThreadById
\* is a single read that writes nothing, so it takes no part in a race and
\* is left to the sequential specification.
Next ==
    \E p \in Procs :
        \/ \E a \in ConcurrentAuthors, c \in ConcurrentCodes, x \in Texts :
              CreateThreadFindCommunity(p, a, c, x)
        \/ \E id \in ThreadIds, u \in ConcurrentAuthors : AddCommentFind(p, id, u)
        \/ \E id \in ThreadIds : DeleteThreadFind(p, id)
        \/ Resume(p)

Spec == Init /\ [][Next]_vars

\* No call of another process is under way.
Alone(p) == \A q \in Procs \ {p} : Quiescent(q)

\* Calls run one after the other: a call starts only while no other call is
\* under way.
NextSeq ==
    \E p \in Procs :
        \/ Alone(p) /\ \E a \in Users, c \in CommunityCodes, x \in Texts :
                         CreateThreadFindCommunity(p, a, c, x)
        \/ Alone(p) /\ \E id \in ThreadIds, u \in Users : AddCommentFind(p, id, u)
        \/ Alone(p) /\ \E id \in ThreadIds : DeleteThreadFind(p, id)
        \/ Alone(p) /\ \E id \in ThreadIds : FetchThreadById(p, id)
        \/ Resume(p)

SpecSeq == Init /\ [][NextSeq]_vars

\* Calls run one after the other, on behalf of the users and with the
\* community codes of the concurrent specification, and a store call of
\* deleteThread and the second save of addCommentToThread may reject.
NextFail ==
    \E p \in Procs :
        \/ Alone(p) /\ \E a \in ConcurrentAuthors, c \in ConcurrentCodes, x \in Texts :
                         CreateThreadFindCommunity(p, a, c, x)
        \/ Alone(p) /\ \E id \in ThreadIds, u \in ConcurrentAuthors : AddCommentFind(p, id, u)
        \/ Alone(p) /\ \E id \in ThreadIds : DeleteThreadFind(p, id)
        \/ Resume(p)
        \/ DeleteThreadStoreRejects(p)
        \/ AddCommentSaveParentRejects(p)

SpecFail == Init /\ [][NextFail]_vars

\* Stores of at most n threads with any parentId, dangling and cyclic
\* references included.
Stores(n) ==
    UNION {[S -> {NewThread("u1", NoCommunity, par) : par \in 0..n}] : S \in SUBSET (1..n)}

StoreInit(stores) ==
    /\ threads \in stores
    /\ users = [u \in Users |-> <<>>]
    /\ communities = [c \in Communities |-> <<>>]
    /\ nextId = NumNodes + 1
    /\ proc = [p \in Procs |-> IdleProc]

\* fetchAllChildThreads alone, on a store that does not change.
NextTree ==
    \/ \E id \in 1..NumNodes : ExpandStart("p1", id)
    \/ FetchChildrenOfRoot("p1")
    \/ FetchChildrenOfNext("p1")

\* The traversal on every forest (dangling parentIds included).
InitTree == StoreInit({s \in Stores(NumNodes) : Acyclic(s)})

SpecTree == InitTree /\ [][NextTree]_vars

\* The traversal on every store, cyclic ones included.
InitCycle == StoreInit(Stores(NumCycleNodes))

SpecCycle == InitCycle /\ [][NextTree]_vars

\* A store for fetchPosts: the threads S, created in the order of their ids;
\* reply[t] makes t a reply to the thread created before it, tick[t] tells
\* whether the clock had advanced when t was created (createdAt is the time
\* of creation, so threads created within one tick share it).
FeedStore(S, reply, tick) ==
    [t \in S |->
        NewThread("u1", NoCommunity, IF reply[t] THEN t - 1 ELSE Null)
            @@ [createdAt |-> 1 + Cardinality({x \in S : x <= t /\ tick[x]})]]

FeedStores ==
    {FeedStore(S, reply, tick) :
        S \in SUBSET (1..NumPosts), reply \in [1..NumPosts -> BOOLEAN], tick \in [1..NumPosts -> BOOLEAN]}

InitFeed == StoreInit(FeedStores)

\* fetchPosts alone, on a store that does not change.
NextFeed ==
    \/ \E pageNumber \in PageNumbers, pageSize \in PageSizes : FetchPostsCount("p1", pageNumber, pageSize)
    \/ FetchPostsExec("p1")

SpecFeed == InitFeed /\ [][NextFeed]_vars

\* The elements of a set of ids in increasing order.
RECURSIVE SortedSeq(_)
SortedSeq(S) ==
    IF S = {} THEN <<>>
    ELSE LET least == CHOOSE x \in S : \A y \in S : x <= y
         IN <<least>> \o SortedSeq(S \ {least})

\* A store as calls run one after the other leave it: the threads S, created
\* in the order of their ids; a reply is a reply to the thread created before
\* it and has no community.
OwnedStore(S, author, community, reply) ==
    [t \in S |->
        IF reply[t] /\ t > 1
        THEN NewThread(author[t], NoCommunity, t - 1)
        ELSE NewThread(author[t], community[t], Null)]

OwnedStores ==
    {OwnedStore(S, author, community, reply) :
        S \in SUBSET (1..NumOwned), author \in [1..NumOwned -> Users],
        community \in [1..NumOwned -> Communities \cup {NoCommunity}],
        reply \in [1..NumOwned -> BOOLEAN]}

\* The lists of the owners that exist: each lists the threads without parent
\* that are its own, in the order of their creation.
ListsOfAuthors(store, existing) ==
    [u \in existing |->
        SortedSeq({t \in DOMAIN store : store[t].parentId = Null /\ store[t].author = u})]

ListsOfCommunities(store, existing) ==
    [c \in existing |->
        SortedSeq({t \in DOMAIN store : store[t].parentId = Null /\ store[t].community = c})]

\* Any of the Users and Communities the threads refer to may be gone (the
\* account was deleted by other code).
InitOwners ==
    /\ threads \in OwnedStores
    /\ \E existing \in SUBSET Users : users = ListsOfAuthors(threads, existing)
    /\ \E existing \in SUBSET Communities : communities = ListsOfCommunities(threads, existing)
    /\ nextId = NumOwned + 1
    /\ proc = [p \in Procs |-> IdleProc]

\* deleteThread alone.
NextOwners ==
    \/ \E id \in 1..NumOwned : DeleteThreadFind("p1", id)
    \/ FetchChildrenOfRoot("p1")
    \/ FetchChildrenOfNext("p1")
    \/ DeleteThreadDeleteMany("p1")
    \/ DeleteThreadUpdateUsers("p1")
    \/ DeleteThreadUpdateCommunities("p1")

SpecOwners == InitOwners /\ [][NextOwners]_vars

(* ============================== properties ============================== *)

\* The threads whose parentId is t.
RepliesOf(t) == {x \in DOMAIN threads : threads[x].parentId = t}

\* fetchAllChildThreads has returned to the caller that called it on its own.
ExpandDone(p) == proc[p].op = "fetchAllChildThreads" /\ proc[p].pc = "done"

\* The ids of the threads a traversal has collected so far, in order.
ResultIds(p) == [i \in 1..Len(proc[p].descendantThreads) |-> proc[p].descendantThreads[i].id]

NoDuplicates(s) == \A i, j \in 1..Len(s) : s[i] = s[j] => i = j

\* C7: on a store without a parentId cycle, the sequence fetchAllChildThreads
\* returns for T holds exactly the threads whose parentId chain reaches T,
\* each of them once.
C7_ExactlyTheDescendants ==
    \A p \in Procs :
        ExpandDone(p) /\ Acyclic(threads) =>
            /\ Range(ResultIds(p)) = Descendants(threads, proc[p].id)
            /\ NoDuplicates(ResultIds(p))

\* A traversal has returned a child, a grandchild and a second child of the
\* thread it was called on.
C7_Witness ==
    \E p \in Procs :
        /\ ExpandDone(p) /\ Acyclic(threads)
        /\ proc[p].id \in DOMAIN threads
        /\ Len(proc[p].descendantThreads) = 3
        /\ \E x \in Range(ResultIds(p)) : threads[x].parentId # proc[p].id
        /\ Cardinality(RepliesOf(proc[p].id)) = 2

\* C8: in the sequence fetchAllChildThreads returns, a thread whose parent is
\* in the sequence too comes after its parent.
C8_ParentBeforeChild ==
    \A p \in Procs :
        ExpandDone(p) =>
            \A i, j \in 1..Len(ResultIds(p)) :
                ResultIds(p)[j] = threads[ResultIds(p)[i]].parentId => j < i

\* The scenario of the specification: root 1 with children 2 and 3, and 4 a
\* child of 2; the traversal of 1 has returned {2, 3, 4} with 2 ahead of 4.
C8_Witness ==
    /\ DOMAIN threads = {1, 2, 3, 4}
    /\ threads[1].parentId = Null /\ threads[2].parentId = 1
    /\ threads[3].parentId = 1 /\ threads[4].parentId = 2
    /\ ExpandDone("p1") /\ proc["p1"].id = 1
    /\ Range(ResultIds("p1")) = {2, 3, 4} /\ Len(ResultIds("p1")) = 3
    /\ \E i, j \in 1..3 : i < j /\ ResultIds("p1")[i] = 2 /\ ResultIds("p1")[j] = 4

\* C9: the sequence fetchAllChildThreads returns for T never holds T, and it
\* is empty exactly when no thread of the store has parentId T.
C9_LeafGivesEmpty ==
    \A p \in Procs :
        ExpandDone(p) =>
            /\ proc[p].id \notin Range(ResultIds(p))
            /\ (proc[p].descendantThreads = <<>>) <=> (RepliesOf(proc[p].id) = {})

\* A traversal of a thread without replies has returned the empty sequence
\* while other threads of the store have replies.
C9_Witness ==
    \E p \in Procs :
        /\ ExpandDone(p) /\ proc[p].id \in DOMAIN threads
        /\ proc[p].descendantThreads = <<>>
        /\ \E x \in DOMAIN threads : threads[x].parentId \in DOMAIN threads

\* C10: a traversal visits no thread twice, whatever the parentId references
\* of the store are (a cycle included).
C10_NoThreadVisitedTwice ==
    \A p \in Procs :
        proc[p].op = "fetchAllChildThreads" => NoDuplicates(ResultIds(p))

\* The ids some list of a User or of a Community holds.
ListedIds ==
    UNION {Range(users[u]) : u \in Users} \cup UNION {Range(communities[c]) : c \in Communities}

\* C1: once deleteThread(T) has returned without an error, no thread exists
\* under the id of T or of a thread that was a descendant of T when the call
\* started, and fetchThreadById on such an id fails with NotFound.
C1_DeletedThenNotFound ==
    /\ \A p \in Procs : DeleteOk(p) => proc[p].startSub \cap DOMAIN threads = {}
    /\ \A q \in Procs :
          proc[q].op = "fetchThreadById" /\ proc[q].pc = "done" /\ proc[q].wasDeleted =>
              proc[q].outcome = "NotFound"

\* C2: once deleteThread(T) has returned without an error, with calls run
\* one after the other, no User and no Community lists the id of T or of a
\* thread that was a descendant of T when the call started.
C2_NoListedVictim ==
    \A p \in Procs : DeleteOk(p) => proc[p].startSub \cap ListedIds = {}

\* deleteThread has removed a thread with a reply while a User and a
\* Community still list another thread.
C2_Witness ==
    \E p \in Procs :
        /\ DeleteOk(p) /\ Cardinality(proc[p].startSub) >= 2
        /\ \E u \in Users : users[u] # <<>>
        /\ \E c \in Communities : communities[c] # <<>>

\* Every id in a thread's children is the id of an existing thread whose
\* parentId is that thread.
ChildIdsResolve ==
    \A t \in DOMAIN threads : \A c \in Range(threads[t].children) :
        c \in DOMAIN threads /\ threads[c].parentId = t

\* Every id in a thread's children that is the id of an existing thread is
\* the id of a thread whose parentId is that thread.
ChildIdsPointBack ==
    \A t \in DOMAIN threads : \A c \in Range(threads[t].children) :
        c \in DOMAIN threads => threads[c].parentId = t

\* A step that changes the children of a thread that exists before and after
\* it is the originalThread.save() of addCommentToThread on that thread, and
\* appends the id of the reply the call created.
OnlyAddCommentChangesChildren ==
    \A t \in DOMAIN threads \cap DOMAIN threads' :
        threads'[t].children # threads[t].children =>
            \E p \in Procs :
                /\ proc[p].pc = "ac_parent" /\ proc'[p].pc = "done"
                /\ proc[p].id = t
                /\ threads'[t].children = Append(threads[t].children, proc[p].created)

\* C3 as claimed: in every reachable state every id in a thread's children
\* is the id of an existing thread whose parentId is that thread, and only
\* addCommentToThread changes a thread's children.
C3_ChildIdsExistAndPointBack == []ChildIdsResolve /\ [][OnlyAddCommentChangesChildren]_vars

\* C3 as amended: in every reachable state every id in a thread's children
\* is the id of a thread that was created as a reply to it, which either
\* still exists with that parentId or has been deleted; and only
\* addCommentToThread changes a thread's children.
C3_ChildIdsPointBackWhileTheyExist ==
    /\ [](ChildIdsPointBack /\ \A t \in DOMAIN threads : \A c \in Range(threads[t].children) : c < nextId)
    /\ [][OnlyAddCommentChangesChildren]_vars

\* A reply has been deleted and its parent, which still exists and has
\* another reply, still lists it.
C3_Witness ==
    \E t \in DOMAIN threads :
        /\ \E c \in Range(threads[t].children) : c \notin DOMAIN threads
        /\ \E c \in Range(threads[t].children) : c \in DOMAIN threads

\* In this step process p calls deleteThread with an id no thread has.
CallsDeleteOnMissing(p) ==
    /\ Quiescent(p) /\ proc'[p] # proc[p]
    /\ proc'[p].op = "deleteThread"
    /\ ~Exists(threads, proc'[p].id)

\* C4: deleteThread called with an id that no thread has (such as the id of
\* a thread an earlier deleteThread removed) throws "thread not found" at
\* once: no thread, no User list and no Community list changes, and
\* revalidatePath is not called.
C4_DeleteOfMissingThreadChangesNothing ==
    [][\A p \in Procs :
          CallsDeleteOnMissing(p) =>
              /\ proc'[p].pc = "done" /\ proc'[p].outcome = "NotFound"
              /\ ~proc'[p].revalidated
              /\ UNCHANGED <<threads, users, communities>>]_vars

\* A second deleteThread on an id that a deleteThread has removed has thrown
\* "thread not found" while other threads and list entries exist.
C4_Witness ==
    \E p \in Procs :
        /\ proc[p].op = "deleteThread" /\ proc[p].pc = "done"
        /\ proc[p].outcome = "NotFound" /\ proc[p].wasDeleted
        /\ DOMAIN threads # {} /\ ListedIds # {}

\* In this step addCommentToThread of q stores its reply after deleteThread
\* of p, which deletes the reply's parent, has read its subtree and has run
\* its deleteMany.
RepliesAfterBulkDelete(q, p) ==
    /\ proc[q].pc = "ac_comment" /\ proc'[q].pc = "ac_parent"
    /\ proc[p].op = "deleteThread"
    /\ proc[p].pc \in {"del_users", "del_communities", "done"}
    /\ proc'[q].racedRoot # Null /\ proc'[q].racedRoot = proc[p].id

\* In this step deleteThread of p runs its deleteMany after addCommentToThread
\* of q has stored a reply to a thread p deletes, later than p's read of the
\* subtree.
BulkDeletesAfterReply(q, p) ==
    /\ proc[p].pc = "del_many" /\ proc'[p].pc = "del_users"
    /\ proc[q].op = "addCommentToThread" /\ proc[q].created # Null
    /\ proc[q].racedRoot # Null /\ proc[q].racedRoot = proc[p].id

\* C5: a reply that addCommentToThread stores under a thread of the subtree
\* of T after a concurrent deleteThread(T) has read the subtree, before or
\* after its deleteMany, is not among the ids deleted; once the deleteMany
\* has run the reply exists and its parentId is the id of no thread.
C5_LateReplyIsOrphaned ==
    [][\A q \in Procs : \A p \in Procs \ {q} :
          RepliesAfterBulkDelete(q, p) \/ BulkDeletesAfterReply(q, p) =>
              /\ proc'[q].created \notin descendantThreadIds(proc[p])
              /\ proc'[q].created \in DOMAIN threads'
              /\ threads'[proc'[q].created].parentId = proc[q].id
              /\ proc[q].id \notin DOMAIN threads']_vars

\* addCommentToThread has returned without an error, its reply attached to
\* the parent, and a deleteThread that had read the subtree before the reply
\* was stored has since deleted the parent: the reply exists without parent.
C5_Witness ==
    \E q \in Procs :
        /\ proc[q].op = "addCommentToThread" /\ proc[q].pc = "done" /\ proc[q].outcome = "ok"
        /\ proc[q].racedRoot # Null
        /\ proc[q].created \in DOMAIN threads
        /\ proc[q].id \notin DOMAIN threads

\* C6: when deleteThread on a thread A and deleteThread on a descendant D of
\* A have both finished, however the two interleaved (no call of another
\* kind being under way while either ran), each has returned or has
\* thrown "thread not found", no thread of the subtree A had exists, and no
\* User or Community lists the id of a thread of that subtree.
C6_OverlappingDeletesLeaveNothing ==
    \A p \in Procs : \A q \in Procs \ {p} :
        /\ proc[p].op = "deleteThread" /\ proc[p].pc = "done"
        /\ proc[q].op = "deleteThread" /\ proc[q].pc = "done"
        /\ proc[q].id \in proc[p].startSub \ {proc[p].id}
        /\ proc[p].onlyDeletes /\ proc[q].onlyDeletes
        => /\ proc[p].outcome \in {"ok", "NotFound"}
           /\ proc[q].outcome \in {"ok", "NotFound"}
           /\ proc[p].startSub \cap DOMAIN threads = {}
           /\ proc[p].startSub \cap ListedIds = {}

\* Both calls found their thread, so they overlapped in time; the descendant
\* had a reply of its own.
C6_Witness ==
    \E p \in Procs : \E q \in Procs \ {p} :
        /\ DeleteOk(p) /\ DeleteOk(q)
        /\ proc[p].onlyDeletes /\ proc[q].onlyDeletes
        /\ proc[q].id \in proc[p].startSub \ {proc[p].id}
        /\ Cardinality(proc[q].startSub) >= 2

\* The number of times x occurs in the sequence s.
Occurrences(s, x) == Cardinality({i \in 1..Len(s) : s[i] = x})

\* In this step addCommentToThread of p returns without an error.
AddCommentSucceeds(p) ==
    proc[p].pc = "ac_parent" /\ proc'[p].pc = "done" /\ proc'[p].outcome = "ok"

\* In this step process q calls fetchThreadById on thread t.
FetchesThread(q, t) ==
    /\ Quiescent(q) /\ proc'[q] # proc[q]
    /\ proc'[q].op = "fetchThreadById" /\ proc'[q].id = t

\* C11: with calls run one after the other, when addCommentToThread returns
\* without an error the reply exists with parentId equal to the id of the
\* parent, and the parent's children are the children it had before followed
\* by the id of the reply, which was not among them; a later fetchThreadById
\* of the parent shows the reply, while it exists, exactly once.
C11_ReplyAppendedOnce ==
    [][\A p \in Procs :
          /\ AddCommentSucceeds(p) =>
                LET t == proc[p].id
                    r == proc[p].created
                IN /\ r \in DOMAIN threads' /\ threads'[r].parentId = t
                   /\ t \in DOMAIN threads'
                   /\ threads'[t].children = Append(threads[t].children, r)
                   /\ Occurrences(threads'[t].children, r) = 1
                   /\ Occurrences(PopulateChildren(threads', t), r) = 1
          /\ \A q \in Procs \ {p} :
                /\ proc[p].op = "addCommentToThread" /\ proc[p].pc = "done"
                /\ proc[p].outcome = "ok"
                /\ FetchesThread(q, proc[p].id)
                /\ proc[p].created \in DOMAIN threads /\ proc[p].id \in DOMAIN threads
                => Occurrences(proc'[q].retChildren, proc[p].created) = 1]_vars

\* addCommentToThread has attached a second reply to a thread, behind the
\* first, and fetchThreadById of that thread has since shown both.
C11_Witness ==
    \E p \in Procs : \E q \in Procs \ {p} :
        /\ proc[p].op = "addCommentToThread" /\ proc[p].pc = "done" /\ proc[p].outcome = "ok"
        /\ proc[p].id \in DOMAIN threads /\ proc[p].created \in DOMAIN threads
        /\ Len(threads[proc[p].id].children) = 2
        /\ threads[proc[p].id].children[2] = proc[p].created
        /\ proc[q].op = "fetchThreadById" /\ proc[q].pc = "done"
        /\ proc[q].ret = proc[p].id
        /\ proc[q].retChildren = threads[proc[p].id].children

\* In this step process p calls addCommentToThread with a threadId no thread
\* has.
CallsAddCommentOnMissing(p) ==
    /\ Quiescent(p) /\ proc'[p] # proc[p]
    /\ proc'[p].op = "addCommentToThread"
    /\ ~Exists(threads, proc'[p].id)

\* C12: addCommentToThread called with a threadId that no thread has throws
\* "Thread not found" at once: no thread is created, no thread (so no
\* thread's children) changes, and revalidatePath is not called.
C12_ReplyToMissingThreadChangesNothing ==
    [][\A p \in Procs :
          CallsAddCommentOnMissing(p) =>
              /\ proc'[p].pc = "done" /\ proc'[p].outcome = "NotFound"
              /\ proc'[p].created = Null /\ ~proc'[p].revalidated
              /\ UNCHANGED <<threads, users, communities, nextId>>]_vars

\* addCommentToThread has thrown "Thread not found" while a thread with a
\* reply attached to it exists.
C12_Witness ==
    \E p \in Procs :
        /\ proc[p].op = "addCommentToThread" /\ proc[p].pc = "done"
        /\ proc[p].outcome = "NotFound" /\ proc[p].id \notin DOMAIN threads
        /\ \E t \in DOMAIN threads : threads[t].children # <<>>

\* In this step process q calls fetchThreadById.
CallsFetchThreadById(q) ==
    Quiescent(q) /\ proc'[q] # proc[q] /\ proc'[q].op = "fetchThreadById"

\* C13: fetchThreadById called with an id that no thread has fails with
\* NotFound instead of returning an absent result, and no call of
\* fetchThreadById changes a thread, a User list or a Community list.
C13_FetchOfMissingThreadFails ==
    [][\A q \in Procs :
          CallsFetchThreadById(q) =>
              /\ UNCHANGED <<threads, users, communities, nextId>>
              /\ ~Exists(threads, proc'[q].id) => proc'[q].outcome = "NotFound"]_vars

\* s can be obtained from l by removing entries.
RECURSIVE IsSubseq(_, _)
IsSubseq(s, l) ==
    IF s = <<>> THEN TRUE
    ELSE IF l = <<>> THEN FALSE
    ELSE IF Head(s) = Head(l) THEN IsSubseq(Tail(s), Tail(l))
    ELSE IsSubseq(s, Tail(l))

\* The entries of l that are not in ids, in their order.
Without(l, ids) == SelectSeq(l, LAMBDA x : x \notin ids)

\* after is before with nothing but occurrences of ids removed.
OnlyRemoved(before, after, ids) ==
    IsSubseq(after, before) /\ Without(after, ids) = Without(before, ids)

\* In this step a deleteThread call of process p starts or resumes.
DeleteThreadStep(p) ==
    /\ proc'[p] # proc[p]
    /\ \/ Quiescent(p) /\ proc'[p].op = "deleteThread"
       \/ ~Quiescent(p) /\ proc[p].op = "deleteThread"

\* C14: deleteThread deletes exactly the threads whose ids are in
\* descendantThreadIds (the id it was called with and the ids of the threads
\* fetchAllChildThreads returned) and leaves every other thread as it was;
\* from the User and Community lists it removes nothing but occurrences of
\* those ids, the other entries keeping their order; and the deleteMany and
\* the two updateMany are its only writes.
C14_DeletesOnlyTheVictims ==
    [][\A p \in Procs :
          DeleteThreadStep(p) =>
              LET victimIds == descendantThreadIds(proc[p])
              IN /\ IF proc[p].pc = "del_many"
                    THEN /\ DOMAIN threads' = DOMAIN threads \ victimIds
                         /\ \A t \in DOMAIN threads' : threads'[t] = threads[t]
                    ELSE threads' = threads
                 /\ IF proc[p].pc = "del_users"
                    THEN \A u \in Users : OnlyRemoved(users[u], users'[u], victimIds)
                    ELSE users' = users
                 /\ IF proc[p].pc = "del_communities"
                    THEN \A c \in Communities : OnlyRemoved(communities[c], communities'[c], victimIds)
                    ELSE communities' = communities
                 /\ nextId' = nextId]_vars

\* deleteThread has deleted the first thread created; the two threads created
\* after it exist and are still listed, one by each user, so the list of the
\* deleted thread's author has lost that thread and kept another.
C14_Witness ==
    \E p \in Procs :
        /\ DeleteOk(p) /\ proc[p].id = 1 /\ proc[p].startSub = {1}
        /\ DOMAIN threads = {2, 3}
        /\ \A u \in Users : Len(users[u]) = 1 /\ users[u][1] \in DOMAIN threads

\* In this step a createThread call of process p starts or resumes.
CreateThreadStep(p) ==
    /\ proc'[p] # proc[p]
    /\ \/ Quiescent(p) /\ proc'[p].op = "createThread"
       \/ ~Quiescent(p) /\ proc[p].op = "createThread"

\* In this step a createThread call of process p returns without an error.
CreateThreadSucceeds(p) ==
    /\ proc[p].op = "createThread" /\ ~Quiescent(p)
    /\ proc'[p].pc = "done" /\ proc'[p].outcome = "ok"

\* The text of the createThread call of p that starts or resumes in this step.
CreateThreadText(p) == IF Quiescent(p) THEN proc'[p].text ELSE proc[p].text

\* C15: a createThread call whose communityId is the code of no community
\* (its text not being empty) changes no Community list in any of its steps,
\* creates a thread without community and without parentId, and returns
\* without an error.
C15_UnknownCommunityStillCreates ==
    [][\A p \in Procs :
          CreateThreadStep(p) /\ proc'[p].communityId = "unknown" /\ CreateThreadText(p) # "" =>
              /\ communities' = communities
              /\ proc[p].pc = "ct_create" =>
                    /\ proc'[p].created \in DOMAIN threads' \ DOMAIN threads
                    /\ threads'[proc'[p].created].community = NoCommunity
                    /\ threads'[proc'[p].created].parentId = Null
              /\ proc'[p].pc = "done" =>
                    /\ proc'[p].outcome = "ok"
                    /\ proc'[p].created \in DOMAIN threads'
                    /\ \A c \in Communities : proc'[p].created \notin Range(communities'[c])]_vars

\* createThread called with the code of no community has returned without an
\* error; the thread it created exists without community and without parent
\* while a community lists another thread.
C15_Witness ==
    \E p \in Procs :
        /\ proc[p].op = "createThread" /\ proc[p].pc = "done" /\ proc[p].outcome = "ok"
        /\ proc[p].communityId = "unknown"
        /\ proc[p].created \in DOMAIN threads
        /\ threads[proc[p].created].community = NoCommunity
        /\ threads[proc[p].created].parentId = Null
        /\ \E c \in Communities : communities[c] # <<>>

\* C16: with calls run one after the other, a createThread call changes the
\* User lists only by appending the id of the new thread to the author's
\* list, and the Community lists only by appending it to the list of the
\* community its communityId resolved to; when it returns without an error
\* the id occurs once in the author's list, once in the list of that
\* community if there is one, and in no other Community list.
C16_NewThreadListedOnce ==
    [][\A p \in Procs :
          CreateThreadStep(p) =>
              /\ IF proc[p].pc = "ct_user"
                 THEN /\ users' = [users EXCEPT ![proc[p].author] = Append(@, proc[p].created)]
                      /\ proc[p].created \notin Range(users[proc[p].author])
                 ELSE users' = users
              /\ IF proc[p].pc = "ct_community"
                 THEN /\ proc[p].communityId \in Communities
                      /\ communities' = [communities EXCEPT ![proc[p].communityId] = Append(@, proc[p].created)]
                      /\ proc[p].created \notin Range(communities[proc[p].communityId])
                 ELSE communities' = communities
              /\ CreateThreadSucceeds(p) =>
                    /\ Occurrences(users'[proc[p].author], proc[p].created) = 1
                    /\ \A u \in Users \ {proc[p].author} : proc[p].created \notin Range(users'[u])
                    /\ \A c \in Communities :
                          Occurrences(communities'[c], proc[p].created) =
                              IF c = proc[p].communityId THEN 1 ELSE 0]_vars

\* createThread called with the code of a community has returned without an
\* error: the id of the new thread is the last of two entries of its
\* author's list and the last of two entries of the community's list.
C16_Witness ==
    \E p \in Procs :
        /\ proc[p].op = "createThread" /\ proc[p].pc = "done" /\ proc[p].outcome = "ok"
        /\ proc[p].communityId \in Communities
        /\ proc[p].created \in DOMAIN threads
        /\ LET l == users[threads[proc[p].created].author]
               g == communities[proc[p].communityId]
           IN /\ Len(l) = 2 /\ l[2] = proc[p].created
              /\ Len(g) = 2 /\ g[2] = proc[p].created

\* The threads without parent, the posts of the feed.
RootThreads == {t \in DOMAIN threads : threads[t].parentId = Null}

\* The number of posts created later than t, and of those created no earlier
\* than t (t among them).
NewerThan(t) == Cardinality({x \in RootThreads : threads[x].createdAt > threads[t].createdAt})

NotOlderThan(t) == Cardinality({x \in RootThreads : threads[x].createdAt >= threads[t].createdAt})

\* fetchPosts has returned to p's caller without an error.
FetchPostsOk(p) == proc[p].op = "fetchPosts" /\ proc[p].pc = "done" /\ proc[p].outcome = "ok"

\* C17: on a store that does not change during the call, fetchPosts with
\* pageNumber >= 1 and pageSize >= 1 returns threads without parent only,
\* none twice, newest first, namely those at positions
\* (pageNumber - 1) * pageSize + 1 .. pageNumber * pageSize of the posts in
\* descending createdAt order (as far as there are that many), and isNext
\* is true exactly when there are more than pageNumber * pageSize posts.
C17_PageOfNewestFirst ==
    \A p \in Procs :
        FetchPostsOk(p) /\ proc[p].pageNumber >= 1 /\ proc[p].pageSize >= 1 =>
            LET posts == proc[p].posts
                first == (proc[p].pageNumber - 1) * proc[p].pageSize
                last == proc[p].pageNumber * proc[p].pageSize
                n == Cardinality(RootThreads)
            IN /\ Range(posts) \subseteq RootThreads /\ NoDuplicates(posts)
               /\ \A i, j \in 1..Len(posts) :
                     i < j => threads[posts[i]].createdAt >= threads[posts[j]].createdAt
               /\ Len(posts) = IF n <= first THEN 0 ELSE IF n < last THEN n - first ELSE last - first
               /\ \A i \in 1..Len(posts) :
                     NewerThan(posts[i]) <= first + i - 1 /\ first + i <= NotOlderThan(posts[i])
               /\ proc[p].isNext <=> n > last

\* The scenario of the specification: five posts created at increasing
\* times; page 3 with pageSize 2 has returned the oldest alone, isNext false.
C17_Witness ==
    /\ DOMAIN threads = 1..5
    /\ \A t \in 1..5 : threads[t].parentId = Null /\ threads[t].createdAt = t
    /\ FetchPostsOk("p1") /\ proc["p1"].pageNumber = 3 /\ proc["p1"].pageSize = 2
    /\ proc["p1"].posts = <<1>> /\ ~proc["p1"].isNext

\* The same five posts: page 1 with pageSize 2 has returned the two newest,
\* isNext true.
C17_FirstPage ==
    /\ DOMAIN threads = 1..5
    /\ \A t \in 1..5 : threads[t].parentId = Null /\ threads[t].createdAt = t
    /\ FetchPostsOk("p1") /\ proc["p1"].pageNumber = 1 /\ proc["p1"].pageSize = 2
    /\ proc["p1"].posts = <<5, 4>> /\ proc["p1"].isNext

\* C18: a fetchPosts call with pageNumber <= 0 never has a negative
\* skipAmount, and it either throws or returns what pageNumber = 1 returns.
C18_NoNegativeSkipAmount ==
    \A p \in Procs :
        proc[p].op = "fetchPosts" /\ proc[p].pageNumber <= 0 =>
            /\ proc[p].skipAmount >= 0
            /\ FetchPostsOk(p) =>
                  \E sorted \in SortedDesc(threads, TopLevelThreads(threads)) :
                      proc[p].posts = SkipLimit(sorted, 0, proc[p].pageSize)

\* In this step deleteThread of p throws because one of its two updateMany
\* calls has rejected, the deleteMany having run.
RetractionFails(p) ==
    /\ proc[p].op = "deleteThread" /\ proc[p].pc \in {"del_users", "del_communities"}
    /\ proc'[p].pc = "done" /\ proc'[p].outcome # "ok"

\* What deleteThread throws when it has deleted nothing: no thread has the
\* id, or a store call up to the deleteMany has rejected.
NothingDeletedErrors == {"NotFound", "StoreError"}

\* C19: when an updateMany of deleteThread rejects after the deleteMany has
\* run, the deleted threads stay deleted, the User and Community lists are
\* left as they are, and the error thrown is a PartialCascadeFailure, which
\* differs from every error of a call that has deleted nothing.
C19_PartialCascadeFailureSurfaced ==
    [][\A p \in Procs :
          RetractionFails(p) =>
              /\ threads' = threads
              /\ descendantThreadIds(proc[p]) \cap DOMAIN threads' = {}
              /\ users' = users /\ communities' = communities
              /\ proc'[p].outcome = "PartialCascadeFailure"
              /\ proc'[p].outcome \notin NothingDeletedErrors]_vars

\* In this step process p calls createThread with an empty text.
CallsCreateThreadWithEmptyText(p) ==
    /\ Quiescent(p) /\ proc'[p] # proc[p]
    /\ proc'[p].op = "createThread" /\ proc'[p].text = ""

\* C20: createThread called with an empty text throws ValidationFailed at
\* once, before any store call: the call is over without having awaited
\* Community.findOne, no thread is created and no list changes.
C20_EmptyTextRejectedAtOnce ==
    [][\A p \in Procs :
          /\ CallsCreateThreadWithEmptyText(p) =>
                /\ proc'[p].pc = "done" /\ proc'[p].outcome = "ValidationFailed"
                /\ UNCHANGED <<threads, users, communities, nextId>>
          /\ CreateThreadStep(p) /\ ~Quiescent(p) /\ proc[p].text = "" =>
                UNCHANGED <<threads, users, communities, nextId>>]_vars

\* deleteThread of p, called on a thread that existed, is over.
DeleteThreadOver(p) ==
    proc[p].op = "deleteThread" /\ proc[p].pc = "done" /\ proc[p].startSub # {}

\* C21: deleteThread returns without an error also when the User or the
\* Community of a thread it deletes does not exist and when there is no
\* author or no community to update: no owner is created, the lists of the
\* owners that exist hold none of the deleted ids, and revalidatePath has
\* been called.
C21_MissingOwnersSkipped ==
    /\ [](\A p \in Procs :
            DeleteThreadOver(p) =>
                /\ proc[p].outcome = "ok" /\ proc[p].revalidated
                /\ proc[p].startSub \cap DOMAIN threads = {}
                /\ \A u \in DOMAIN users : proc[p].startSub \cap Range(users[u]) = {}
                /\ \A c \in DOMAIN communities : proc[p].startSub \cap Range(communities[c]) = {})
    /\ [][DOMAIN users' = DOMAIN users /\ DOMAIN communities' = DOMAIN communities]_vars

\* deleteThread has returned after deleting a thread and its reply: the
\* author of the reply does not exist, no Community exists, and a User that
\* exists still lists a thread of its own.
C21_Witness ==
    \E p \in Procs :
        /\ DeleteOk(p) /\ Len(proc[p].descendantThreads) = 1
        /\ proc[p].descendantThreads[1].author \notin DOMAIN users
        /\ DOMAIN communities = {}
        /\ \E u \in DOMAIN users : users[u] # <<>>

\* The positions of call in the calls of p.
CallsAt(p, call) == {i \in 1..Len(proc[p].calls) : proc[p].calls[i] = call}

\* C22: the calls deleteThread makes come in this order: Thread.findById,
\* then the Thread.find calls of the traversal, all of them before
\* Thread.deleteMany; User.updateMany right after the deleteMany, which has
\* then deleted the threads; Community.updateMany right after User.updateMany;
\* revalidatePath last, and only in a call that returns without an error.
C22_DeleteThreadCallOrder ==
    \A p \in Procs :
        proc[p].op = "deleteThread" =>
            LET calls == proc[p].calls
            IN /\ calls # <<>> /\ calls[1] = "Thread.findById"
               /\ \A i \in CallsAt(p, "Thread.deleteMany") :
                     /\ \A j \in 1..(i - 1) : calls[j] \in {"Thread.findById", "Thread.find"}
                     /\ Cardinality(CallsAt(p, "Thread.find")) = Len(proc[p].descendantThreads) + 1
                     /\ {proc[p].descendantThreads[k].id : k \in 1..Len(proc[p].descendantThreads)}
                            = proc[p].startSub \ {proc[p].id}
               /\ \A i \in CallsAt(p, "User.updateMany") :
                     /\ i > 1 /\ calls[i - 1] = "Thread.deleteMany"
                     /\ proc[p].startSub \cap DOMAIN threads = {}
               /\ \A i \in CallsAt(p, "Community.updateMany") :
                     i > 1 /\ calls[i - 1] = "User.updateMany"
               /\ \A i \in CallsAt(p, "revalidatePath") :
                     /\ i = Len(calls) /\ i > 1 /\ calls[i - 1] = "Community.updateMany"
                     /\ proc[p].outcome = "ok"
               /\ proc[p].pc = "done" /\ proc[p].outcome # "ok" => CallsAt(p, "revalidatePath") = {}
               /\ DeleteOk(p) => CallsAt(p, "revalidatePath") # {}

\* deleteThread on a thread with one reply has returned: it has made seven
\* calls, revalidatePath the last; another deleteThread ended when its
\* User.updateMany rejected.
C22_Witness ==
    \E p \in Procs : \E q \in Procs \ {p} :
        /\ DeleteOk(p)
        /\ proc[p].calls = <<"Thread.findById", "Thread.find", "Thread.find", "Thread.deleteMany",
                             "User.updateMany", "Community.updateMany", "revalidatePath">>
        /\ proc[q].op = "deleteThread" /\ proc[q].pc = "done" /\ proc[q].outcome = "StoreError"
        /\ proc[q].calls[Len(proc[q].calls)] = "User.updateMany"

\* In this step the originalThread.save() of addCommentToThread of p fails.
ParentUpdateFails(p) ==
    /\ proc[p].op = "addCommentToThread" /\ proc[p].pc = "ac_parent"
    /\ proc'[p].pc = "done" /\ proc'[p].outcome # "ok"

\* C23: with calls run one after the other, an id that a step adds to the
\* children of a thread is the id of a thread that existed before the step
\* with that thread as its parentId, so the children never hold the id of a
\* reply not yet stored; and when the update of the parent fails after the
\* reply was stored, the step writes nothing: the reply stays, with the
\* parent as its parentId and missing from the parent's children, and the
\* call throws without revalidating.
C23_ReplyStoredBeforeParentUpdate ==
    /\ [](\A t \in DOMAIN threads : \A k \in 1..Len(threads[t].children) :
            threads[t].children[k] < nextId)
    /\ [][/\ \A t \in DOMAIN threads \cap DOMAIN threads' :
               \A c \in Range(threads'[t].children) \ Range(threads[t].children) :
                   /\ c \in DOMAIN threads /\ threads[c].parentId = t
                   /\ \E p \in Procs : proc[p].pc = "ac_parent" /\ proc[p].created = c
          /\ \A p \in Procs :
               ParentUpdateFails(p) =>
                   /\ threads' = threads
                   /\ proc[p].created \in DOMAIN threads'
                   /\ threads'[proc[p].created].parentId = proc[p].id
                   /\ proc[p].id \in DOMAIN threads'
                   /\ Occurrences(threads'[proc[p].id].children, proc[p].created) = 0
                   /\ proc'[p].outcome = "StoreError" /\ ~proc'[p].revalidated]_vars

\* addCommentToThread has thrown at the update of the parent: the reply it
\* stored exists with the parent as its parentId, and the parent, which has
\* another reply among its children, does not list it.
C23_Witness ==
    \E p \in Procs :
        /\ proc[p].op = "addCommentToThread" /\ proc[p].pc = "done"
        /\ proc[p].outcome = "StoreError"
        /\ proc[p].created \in DOMAIN threads /\ proc[p].id \in DOMAIN threads
        /\ threads[proc[p].created].parentId = proc[p].id
        /\ threads[proc[p].id].children # <<>>
        /\ Occurrences(threads[proc[p].id].children, proc[p].created) = 0

RECURSIVE Steps(_, _, _)
\* The number of parentId steps from the descendant x up to t.
Steps(store, x, t) ==
    IF store[x].parentId = t THEN 1 ELSE 1 + Steps(store, store[x].parentId, t)

\* The number of levels of the subtree of t, the level of t included.
Levels(store, t) ==
    LET depths == {0} \cup {Steps(store, x, t) : x \in Descendants(store, t)}
    IN 1 + CHOOSE d \in depths : \A e \in depths : e <= d

\* C24: on a store without a parentId cycle, fetchAllChildThreads issues one
\* Thread.find for each level of the subtree it is called on, and at most one
\* more to find the last level empty.
C24_OneQueryPerLevel ==
    \A p \in Procs :
        ExpandDone(p) /\ Acyclic(threads) =>
            Cardinality(CallsAt(p, "Thread.find")) <= Levels(threads, proc[p].id) + 1

\* x is a reply that its parent, which exists, does not list among its
\* children.
Unlisted(x) ==
    /\ x \in DOMAIN threads /\ threads[x].parentId \in DOMAIN threads
    /\ Occurrences(threads[threads[x].parentId].children, x) = 0

\* C25: with calls run one after the other, a reply that exists with
\* parentId P and is missing from the children of P is among the threads the
\* traversal of deleteThread has collected, and is deleted by the deleteMany,
\* when deleteThread is called on P or on a thread whose descendant P is.
C25_UnlistedReplyDeleted ==
    [][\A p \in Procs :
          proc[p].op = "deleteThread" /\ proc[p].pc = "del_many" /\ proc'[p].pc = "del_users" =>
              \A x \in DOMAIN threads :
                  Unlisted(x) /\ threads[x].parentId \in {proc[p].id} \cup Descendants(threads, proc[p].id) =>
                      /\ x \in Range(ResultIds(p))
                      /\ x \notin DOMAIN threads']_vars

\* addCommentToThread on a reply P failed at the update of P, leaving its
\* reply unlisted; a deleteThread on the parent of P has returned, and the
\* unlisted reply is deleted.
C25_Witness ==
    \E p \in Procs : \E q \in Procs \ {p} :
        /\ DeleteOk(p)
        /\ proc[q].op = "addCommentToThread" /\ proc[q].pc = "done" /\ proc[q].outcome = "StoreError"
        /\ proc[q].created \in proc[p].startSub /\ proc[q].id \in proc[p].startSub
        /\ proc[q].id # proc[p].id
        /\ proc[q].created \notin DOMAIN threads

\* addCommentToThread of p on the thread t has returned without an error.
AddCommentOk(p, t) ==
    /\ proc[p].op = "addCommentToThread" /\ proc[p].id = t
    /\ proc[p].pc = "done" /\ proc[p].outcome = "ok"

\* C26: when two addCommentToThread calls on the same thread, overlapping in
\* time in any way, have both returned without an error and the thread
\* exists, its children hold the ids of both replies, each exactly once.
C26_NoLostAppend ==
    \A p \in Procs : \A q \in Procs \ {p} : \A t \in DOMAIN threads :
        AddCommentOk(p, t) /\ AddCommentOk(q, t) =>
            /\ proc[p].created # proc[q].created
            /\ Occurrences(threads[t].children, proc[p].created) = 1
            /\ Occurrences(threads[t].children, proc[q].created) = 1

\* Two addCommentToThread calls on the same thread have returned, and the
\* reply stored first was appended to the children last: the calls
\* overlapped.
C26_Witness ==
    \E p \in Procs : \E q \in Procs \ {p} : \E t \in DOMAIN threads :
        /\ AddCommentOk(p, t) /\ AddCommentOk(q, t)
        /\ proc[p].created < proc[q].created
        /\ threads[t].children = <<proc[q].created, proc[p].created>>

\* The existing threads without a parent whose author is u.
RootThreadsOf(u) == {t \in DOMAIN threads : threads[t].parentId = Null /\ threads[t].author = u}

\* C27: with calls run one after the other, whenever no call is under way
\* the list of every User holds exactly the ids of the existing threads
\* without a parent that the user is the author of, each id once: no id of a
\* reply and no id of a deleted thread is listed.
C27_UserListsAreOwnRoots ==
    (\A p \in Procs : Quiescent(p)) =>
        \A u \in Users :
            /\ Range(users[u]) = RootThreadsOf(u)
            /\ NoDuplicates(users[u])

\* No call is under way; a deleteThread has deleted a thread; a user is the
\* author of an existing thread, which is listed, and of a reply to it,
\* which is not.
C27_Witness ==
    /\ \A p \in Procs : Quiescent(p)
    /\ \E p \in Procs : DeleteOk(p) /\ proc[p].startSub # {}
    /\ \E u \in Users : \E t \in RootThreadsOf(u) : \E x \in DOMAIN threads :
          /\ threads[x].parentId = t /\ threads[x].author = u
          /\ Occurrences(users[u], t) = 1 /\ Occurrences(users[u], x) = 0

====
